---- MODULE Spec2Model ----
(***************************************************************************)
(* A model of the terminal typing test (main.py): the line wrapper         *)
(* split_sentence, the text normaliser remove_accents, the content source  *)
(* get_sentence, and the session typing_test / display_results / main.     *)
(*                                                                         *)
(* A Python str is modelled as a sequence of one-character strings.        *)
(***************************************************************************)
EXTENDS Integers, Sequences, FiniteSets, TLC

VARIABLES
    mainpc,     \* where main() stands: "init", "welcome", "test", "errwait",
                \* "printed" (line 326 has printed, the finally clause has not run), "done"
    term,       \* terminal mode: "cooked" or "curses"
    stack,      \* the call frames of typing_test, innermost last
    now,        \* the last reading of time.time()
    attempts,   \* number of typing_test calls so far (frame ids are 1..attempts)
    fetches,    \* number of get_sentence calls so far
    aborted,    \* ids of the attempts that received the reload key
    reported,   \* ids of the attempts whose result display_results has shown
    last,       \* the last step: its kind, its key, the frame it found and the frame it left
    wIn,        \* wrapper run: the passage given to split_sentence
    wWidth,     \* wrapper run: the terminal width given to split_sentence
    wOut,       \* wrapper run: the lines returned
    wpc         \* wrapper run: "input" or "wrapped"

vars == <<mainpc, term, stack, now, attempts, fetches, aborted, reported,
          last, wIn, wWidth, wOut, wpc>>

sessionVars == <<mainpc, term, stack, now, attempts, fetches, aborted, reported, last>>

wrapVars == <<wIn, wWidth, wOut, wpc>>

----------------------------------------------------------------------------
(* Bounds of the model *)

\* longest passage given to the wrapper run
MaxLen == 5

\* widest effective width (terminal_width - buffer_size) of the wrapper run
MaxSafe == 4

\* number of typing_test calls in one run of main
MaxAttempts == 2

\* largest clock reading (readings are 1..MaxTime)
MaxTime == 2

----------------------------------------------------------------------------
(* Strings *)

\* characters str.split() treats as whitespace
Whitespace == {" ", "\t", "\n"}

\* chr(32) .. chr(126); chr(96), the grave accent, is written "U+0060"
Ascii ==
    << " ", "!", "\"", "#", "$", "%", "&", "'", "(", ")", "*", "+", ",", "-", ".", "/",
       "0", "1", "2", "3", "4", "5", "6", "7", "8", "9", ":", ";", "<", "=", ">", "?",
       "@", "A", "B", "C", "D", "E", "F", "G", "H", "I", "J", "K", "L", "M", "N", "O",
       "P", "Q", "R", "S", "T", "U", "V", "W", "X", "Y", "Z", "[", "\\", "]", "^", "_",
       "U+0060", "a", "b", "c", "d", "e", "f", "g", "h", "i", "j", "k", "l", "m", "n", "o",
       "p", "q", "r", "s", "t", "u", "v", "w", "x", "y", "z", "{", "|", "}", "~" >>

\* Python's None, for start_time
NoTime == -1

\* Python's None, for char
NoChar == "None"

RECURSIVE SplitFrom(_, _, _, _)
\* str.split(): the maximal runs of non-whitespace characters of s, in order
SplitFrom(s, i, cur, acc) ==
    IF i > Len(s)
    THEN IF cur = <<>> THEN acc ELSE Append(acc, cur)
    ELSE IF s[i] \in Whitespace
         THEN SplitFrom(s, i + 1, <<>>, IF cur = <<>> THEN acc ELSE Append(acc, cur))
         ELSE SplitFrom(s, i + 1, Append(cur, s[i]), acc)

RECURSIVE SplitSpaceFrom(_, _, _, _)
\* str.split(" "): the runs between single space characters, empty ones kept
SplitSpaceFrom(s, i, cur, acc) ==
    IF i > Len(s)
    THEN Append(acc, cur)
    ELSE IF s[i] = " "
         THEN SplitSpaceFrom(s, i + 1, <<>>, Append(acc, cur))
         ELSE SplitSpaceFrom(s, i + 1, Append(cur, s[i]), acc)

StrSplitOnSpace(s) == SplitSpaceFrom(s, 1, <<>>, <<>>)

StrSplit(s) == SplitFrom(s, 1, <<>>, <<>>)

RECURSIVE JoinFrom(_, _)
\* " ".join(ws[i..])
JoinFrom(ws, i) ==
    IF i > Len(ws) THEN <<>>
    ELSE IF i = Len(ws) THEN ws[i]
    ELSE ws[i] \o <<" ">> \o JoinFrom(ws, i + 1)

StrJoin(ws) == JoinFrom(ws, 1)

\* len(s.split(" ")): one more than the number of space characters of s
SplitSpaceCount(s) == Cardinality({i \in 1..Len(s) : s[i] = " "}) + 1

----------------------------------------------------------------------------
(* split_sentence *)

buffer_size == 15

safe_width(terminal_width) ==
    IF terminal_width - buffer_size > 1 THEN terminal_width - buffer_size ELSE 1

FitsNoSeparator(current_line_words, word, sw) ==
    Len(StrJoin(current_line_words)) + Len(word) <= sw

FitsStrict(current_line_words, word, sw) ==
    Len(StrJoin(current_line_words)) + 1 + Len(word) < sw

\* the test of line 61
Fits(current_line_words, word, sw) ==
    Len(StrJoin(current_line_words)) + 1 + Len(word) <= sw

StartNewLineDropped(word) == <<>>

StartNewLineTwice(word) == <<word, word>>

\* line 67: the word that did not fit starts the next line
StartNewLine(word) == <<word>>

RECURSIVE SplitLoop(_, _, _, _, _)
\* the for loop of lines 53-67, then lines 70-71
SplitLoop(words, i, sentence_list, current_line_words, sw) ==
    IF i > Len(words)
    THEN IF current_line_words # <<>>
         THEN Append(sentence_list, StrJoin(current_line_words))
         ELSE sentence_list
    ELSE IF current_line_words = <<>>
         THEN SplitLoop(words, i + 1, sentence_list, <<words[i]>>, sw)
         ELSE IF Fits(current_line_words, words[i], sw)
              THEN SplitLoop(words, i + 1, sentence_list,
                             Append(current_line_words, words[i]), sw)
              ELSE SplitLoop(words, i + 1,
                             Append(sentence_list, StrJoin(current_line_words)),
                             StartNewLine(words[i]), sw)

split_sentence(input_str, terminal_width) ==
    LET words == StrSplit(input_str)
        sentence_list == SplitLoop(words, 1, <<>>, <<>>, safe_width(terminal_width))
    IN  IF words = <<>> THEN <<>>
        ELSE IF Len(sentence_list) = 1 /\ sentence_list[1] = <<>> THEN <<>>
        ELSE sentence_list

----------------------------------------------------------------------------
(* remove_accents *)

\* unicodedata.combining(c) # 0, for the characters of the model:
\* "U+0301" is the combining acute accent
combining(c) == c \in {"U+0301"}

\* unicodedata.normalize('NFKD', c) of one character: "U+00E9" (e with acute)
\* decomposes to e followed by the combining acute accent; "U+00DF" (sharp s)
\* and every ASCII character have no decomposition
NFKD1(c) == IF c = "U+00E9" THEN <<"e", "U+0301">> ELSE <<c>>

RECURSIVE NFKDFrom(_, _)
NFKDFrom(s, i) == IF i > Len(s) THEN <<>> ELSE NFKD1(s[i]) \o NFKDFrom(s, i + 1)

remove_accents(input_str) ==
    LET nfkd_form == NFKDFrom(input_str, 1)
    IN  SelectSeq(nfkd_form, LAMBDA c : ~combining(c))

----------------------------------------------------------------------------
(* get_sentence *)

\* "No summary found"
NoSummaryFound ==
    <<"N", "o", " ", "s", "u", "m", "m", "a", "r", "y", " ", "f", "o", "u", "n", "d">>

\* "Failed to retrieve data"
FailedToRetrieve ==
    <<"F", "a", "i", "l", "e", "d", " ", "t", "o", " ", "r", "e", "t", "r", "i", "e",
      "v", "e", " ", "d", "a", "t", "a">>

\* What requests.get(url) can produce: error (the call raises), or a response
\* with a status code and a JSON body (a record of the keys it holds).
Responses ==
    { [error |-> FALSE, status |-> 200,
       json |-> [title |-> "Cat", extract |-> <<"a", "b", " ", "c">>]],
      [error |-> FALSE, status |-> 200,
       json |-> [title |-> "Error", extract |-> <<"a">>]],
      [error |-> FALSE, status |-> 200,
       json |-> [title |-> "Blank", extract |-> <<" ">>]],
      [error |-> FALSE, status |-> 200,
       json |-> [extract |-> <<"U+00E9">>]],
      [error |-> FALSE, status |-> 200,
       json |-> [title |-> "Eszett", extract |-> <<"U+00DF">>]],
      [error |-> FALSE, status |-> 404,
       json |-> [detail |-> "Not found."]],
      [error |-> TRUE, status |-> 0, json |-> [detail |-> ""]] }

\* data.get(key, default)
DictGet(data, key, default) == IF key \in DOMAIN data THEN data[key] ELSE default

\* the (title, sentence) pair returned by get_sentence for a response
get_sentence(response) ==
    IF response.status = 200
    THEN LET data == response.json
         IN  <<DictGet(data, "title", "No title found"),
               DictGet(data, "extract", NoSummaryFound)>>
    ELSE <<"Error", FailedToRetrieve>>

IsFailureNever(title) == FALSE

\* the test of line 155
IsFailure(title) == title = "Error"

----------------------------------------------------------------------------
(* typing_test: frames *)

\* stdscr.getmaxyx()[1]: one width, at which the two-word passage wraps into
\* two lines (effective width 2); drawing on the screen is not modelled
Widths == {17}

\* key codes stdscr.getch() delivers: backspace (8, 127), CTRL+R (18), Enter (10),
\* KEY_BACKSPACE of keypad mode (263) and some printable codes
KeyCodes == {8, 127, 18, 10, 263, 32, 97, 98, 99, 101}

\* line 210
Chr(key) == IF 32 <= key /\ key <= 126 THEN Ascii[key - 31] ELSE NoChar

NoFrame == [pc |-> "none"]

\* the frame of a call that took the branch of lines 155-160: nothing below
\* line 160 has run, so the locals of lines 167-200 do not exist
FailFrame(id, fetch_no, status, title, sentence) ==
    [id |-> id, fetch_no |-> fetch_no, status |-> status, title |-> title,
     sentence |-> sentence, pc |-> "fail_wait"]

NewFrameClockStarted(id, fetch_no, status, title, sentence, width) ==
    LET sentence_list == split_sentence(sentence, width)
    IN  [id |-> id, fetch_no |-> fetch_no, status |-> status, title |-> title,
         sentence |-> sentence, width |-> width,
         word_count |-> SplitSpaceCount(sentence),
         sentence_list |-> sentence_list,
         current_line |-> 0, current_pos |-> 0,
         user_input |-> [i \in 1..Len(sentence_list) |-> <<>>],
         start_time |-> 1, end_time |-> NoTime, end_sets |-> 0,
         error |-> "none", pc |-> "loop"]

\* the locals of typing_test when it reaches the loop (lines 167-202)
NewFrame(id, fetch_no, status, title, sentence, width) ==
    LET sentence_list == split_sentence(sentence, width)
    IN  [id |-> id, fetch_no |-> fetch_no, status |-> status, title |-> title,
         sentence |-> sentence, width |-> width,
         word_count |-> SplitSpaceCount(sentence),
         sentence_list |-> sentence_list,
         current_line |-> 0, current_pos |-> 0,
         user_input |-> [i \in 1..Len(sentence_list) |-> <<>>],
         start_time |-> NoTime, end_time |-> NoTime, end_sets |-> 0,
         error |-> "none", pc |-> "loop"]

HasLocals(f) == f.pc \in {"loop", "results_wait", "raised"}

Top(stk) == stk[Len(stk)]

SetTop(stk, f) == [stk EXCEPT ![Len(stk)] = f]

Pop(stk) == SubSeq(stk, 1, Len(stk) - 1)

\* sentence_list[current_line]
CurLine(f) == f.sentence_list[f.current_line + 1]

----------------------------------------------------------------------------
(* typing_test: one key event in the loop (lines 209-251) *)

\* lines 212-213
StartTimer(f, t) == IF f.start_time = NoTime THEN [f EXCEPT !.start_time = t] ELSE f

AtLineEndEarly(f) == f.current_pos + 1 >= Len(CurLine(f))

AtLineEndNever(f) == FALSE

\* the test of line 229
AtLineEnd(f) == f.current_pos = Len(CurLine(f))

OnMismatchAdvance(f) == [f EXCEPT !.current_pos = @ + 1]

\* lines 223-226: the expected character is drawn in red, nothing else changes
OnMismatch(f) == f

\* lines 218-222
OnMatch(f, char) ==
    [f EXCEPT !.user_input[f.current_line + 1] = Append(@, char),
              !.current_pos = @ + 1]

\* lines 215-232
Printable(f, char) ==
    IF f.current_pos < Len(CurLine(f))
    THEN LET g == IF char = CurLine(f)[f.current_pos + 1]
                  THEN OnMatch(f, char)
                  ELSE OnMismatch(f)
         IN  IF AtLineEnd(g)
             THEN [g EXCEPT !.current_line = @ + 1, !.current_pos = 0]
             ELSE g
    ELSE f

BackspaceInLineOnly(f) ==
    IF f.current_pos > 0
    THEN [f EXCEPT !.current_pos = @ - 1,
                   !.user_input[f.current_line + 1] = SubSeq(@, 1, Len(@) - 1)]
    ELSE f

BackspaceKeepsInput(f) ==
    IF f.current_pos > 0
    THEN [f EXCEPT !.current_pos = @ - 1]
    ELSE IF f.current_line > 0
         THEN [f EXCEPT !.current_line = @ - 1,
                        !.current_pos = Len(f.user_input[f.current_line])]
         ELSE f

\* lines 234-246
Backspace(f) ==
    IF f.current_pos > 0
    THEN [f EXCEPT !.current_pos = @ - 1,
                   !.user_input[f.current_line + 1] = SubSeq(@, 1, Len(@) - 1)]
    ELSE IF f.current_line > 0
         THEN [f EXCEPT !.current_line = @ - 1,
                        !.current_pos = Len(f.user_input[f.current_line])]
         ELSE f

----------------------------------------------------------------------------
(* typing_test: control flow between two blocking getch() calls.            *)
(* Each operator returns the configuration the program blocks in next:      *)
(* [stack, mainpc, term, reported, now, frame], frame being the frame the   *)
(* step worked on as it was when the step left it.                          *)

\* an exception leaves every typing_test frame and is caught at line 319
Raise(f, err, trm, rep, cur) ==
    [stack |-> <<>>, mainpc |-> "errwait", term |-> trm, reported |-> rep,
     now |-> cur, frame |-> [f EXCEPT !.pc = "raised", !.error = err]]

\* display_results up to its getch (lines 275-293), called for the top frame
display_results(stk, trm, rep, cur) ==
    LET f == Top(stk)
    IN  IF f.start_time = NoTime
        THEN Raise(f, "TypeError", trm, rep, cur)
        ELSE IF f.end_time - f.start_time = 0
        THEN Raise(f, "ZeroDivisionError", trm, rep, cur)
        ELSE LET g == [f EXCEPT !.pc = "results_wait"]
             IN  [stack |-> SetTop(stk, g), mainpc |-> "test", term |-> trm,
                  reported |-> rep \cup {[id |-> f.id, word_count |-> f.word_count,
                                          elapsed |-> f.end_time - f.start_time]},
                  now |-> cur, frame |-> g]

RECURSIVE LoopTest(_, _, _, _, _)
\* the while test of line 205 for the top frame and, when it fails, lines
\* 257-261; t is the reading time.time() gives at line 257.  A frame that
\* returns hands control to its caller: main (line 318, then the finally
\* clause) or the typing_test frame below (line 251, then 254 and 205).
LoopTest(stk, trm, rep, cur, t) ==
    LET f == Top(stk)
    IN  IF f.current_line < Len(f.sentence_list)
        THEN [stack |-> stk, mainpc |-> "test", term |-> trm, reported |-> rep,
              now |-> cur, frame |-> f]
        ELSE LET g == [f EXCEPT !.end_time = t, !.end_sets = @ + 1]
             IN  IF g.end_time # 0
                 THEN display_results(SetTop(stk, g), trm, rep, t)
                 ELSE IF Len(stk) = 1
                      THEN [stack |-> <<>>, mainpc |-> "done", term |-> "cooked",
                            reported |-> rep, now |-> t, frame |-> g]
                      ELSE LoopTest(Pop(stk), trm, rep, t, t)

\* the return of the top frame (line 160, or line 296 then the end of
\* typing_test)
Return(stk, trm, rep, cur, t) ==
    IF Len(stk) = 1
    THEN [stack |-> <<>>, mainpc |-> "done", term |-> "cooked", reported |-> rep,
          now |-> cur, frame |-> NoFrame]
    ELSE LoopTest(Pop(stk), trm, rep, cur, t)

\* typing_test from its call to its first getch (lines 153-209)
StartAttempt(stk, trm, rep, cur, t, id, fetch_no, response, width) ==
    IF response.error
    THEN [stack |-> <<>>, mainpc |-> "errwait", term |-> trm, reported |-> rep,
          now |-> cur, frame |-> NoFrame]
    ELSE LET ts == get_sentence(response)
             title == ts[1]
             sentence == remove_accents(ts[2])
         IN  IF IsFailure(title)
             THEN LET f == FailFrame(id, fetch_no, response.status, title, sentence)
                  IN  [stack |-> Append(stk, f), mainpc |-> "test", term |-> trm,
                       reported |-> rep, now |-> cur, frame |-> f]
             ELSE LoopTest(Append(stk, NewFrame(id, fetch_no, response.status, title,
                                                 sentence, width)),
                           trm, rep, cur, t)

----------------------------------------------------------------------------
(* The session: main and the key events *)

NoStep == [kind |-> "none", key |-> 0, before |-> NoFrame, after |-> NoFrame]

SessionInit ==
    /\ mainpc = "init"
    /\ term = "cooked"
    /\ stack = <<>>
    /\ now = 1
    /\ attempts = 0
    /\ fetches = 0
    /\ aborted = {}
    /\ reported = {}
    /\ last = NoStep

Init ==
    /\ SessionInit
    /\ wIn = <<>>
    /\ wWidth = 1
    /\ wOut = <<>>
    /\ wpc = "idle"

\* the program blocks in configuration c after a step of the given kind
Blocks(c, kind, key, before) ==
    /\ stack' = c.stack
    /\ mainpc' = c.mainpc
    /\ term' = c.term
    /\ reported' = c.reported
    /\ now' = c.now
    /\ last' = [kind |-> kind, key |-> key, before |-> before, after |-> c.frame]

InLoop == mainpc = "test" /\ stack # <<>> /\ Top(stack).pc = "loop"

\* main, lines 305-311: initialize_curses and the welcome screen
MainInit ==
    /\ mainpc = "init"
    /\ mainpc' = "welcome"
    /\ term' = "curses"
    /\ last' = [NoStep EXCEPT !.kind = "init"]
    /\ UNCHANGED <<stack, now, attempts, fetches, aborted, reported>>
    /\ UNCHANGED wrapVars

\* main, lines 312-318: any key starts the first typing_test
MainBegin ==
    /\ mainpc = "welcome"
    /\ \E key \in KeyCodes, response \in Responses, width \in Widths, t \in now..MaxTime :
          Blocks(StartAttempt(<<>>, term, reported, now, t, attempts + 1, fetches + 1,
                              response, width),
                 "begin", key, NoFrame)
    /\ attempts' = attempts + 1
    /\ fetches' = fetches + 1
    /\ UNCHANGED aborted
    /\ UNCHANGED wrapVars

\* a key with a code in 32..126 in the loop
KeyPrintable ==
    /\ InLoop
    /\ \E key \in KeyCodes, t1 \in now..MaxTime :
          /\ Chr(key) # NoChar
          /\ LET f == Top(stack)
                 cur == IF f.start_time = NoTime THEN t1 ELSE now
                 g == Printable(StartTimer(f, t1), Chr(key))
             IN  \E t2 \in cur..MaxTime :
                    Blocks(LoopTest(SetTop(stack, g), term, reported, cur, t2),
                           "printable", key, f)
    /\ UNCHANGED <<attempts, fetches, aborted>>
    /\ UNCHANGED wrapVars

\* key 8 or 127 in the loop
KeyBackspace ==
    /\ InLoop
    /\ \E key \in KeyCodes, t1 \in now..MaxTime :
          /\ Chr(key) = NoChar
          /\ key \in {8, 127}
          /\ LET f == Top(stack)
                 cur == IF f.start_time = NoTime THEN t1 ELSE now
                 g == Backspace(StartTimer(f, t1))
             IN  \E t2 \in cur..MaxTime :
                    Blocks(LoopTest(SetTop(stack, g), term, reported, cur, t2),
                           "backspace", key, f)
    /\ UNCHANGED <<attempts, fetches, aborted>>
    /\ UNCHANGED wrapVars

\* key 18 (CTRL+R) in the loop: lines 248-251, typing_test calls itself
KeyReload ==
    /\ InLoop
    /\ attempts < MaxAttempts
    /\ \E key \in KeyCodes, t1 \in now..MaxTime,
          response \in Responses, width \in Widths :
          /\ Chr(key) = NoChar
          /\ key \notin {8, 127}
          /\ key = 18
          /\ LET f == Top(stack)
                 cur == IF f.start_time = NoTime THEN t1 ELSE now
                 g == StartTimer(f, t1)
             IN  \E t2 \in cur..MaxTime :
                    Blocks(StartAttempt(SetTop(stack, g), term, reported, cur, t2,
                                        attempts + 1, fetches + 1, response, width),
                           "reload", key, f)
    /\ aborted' = aborted \cup {Top(stack).id}
    /\ attempts' = attempts + 1
    /\ fetches' = fetches + 1
    /\ UNCHANGED wrapVars

\* any other key in the loop: only the timer start and the refresh happen
KeyOther ==
    /\ InLoop
    /\ \E key \in KeyCodes, t1 \in now..MaxTime :
          /\ Chr(key) = NoChar
          /\ key \notin {8, 127}
          /\ key # 18
          /\ LET f == Top(stack)
                 cur == IF f.start_time = NoTime THEN t1 ELSE now
                 g == StartTimer(f, t1)
             IN  \E t2 \in cur..MaxTime :
                    Blocks(LoopTest(SetTop(stack, g), term, reported, cur, t2),
                           "other", key, f)
    /\ UNCHANGED <<attempts, fetches, aborted>>
    /\ UNCHANGED wrapVars

\* the key of line 159, then the return of line 160
KeyFailWait ==
    /\ mainpc = "test" /\ stack # <<>> /\ Top(stack).pc = "fail_wait"
    /\ \E key \in KeyCodes, t \in now..MaxTime :
          Blocks(Return(stack, term, reported, now, t), "fail_key", key, Top(stack))
    /\ UNCHANGED <<attempts, fetches, aborted>>
    /\ UNCHANGED wrapVars

\* the key of line 293, then clean_up_curses and the returns of
\* display_results and typing_test
KeyResultsWait ==
    /\ mainpc = "test" /\ stack # <<>> /\ Top(stack).pc = "results_wait"
    /\ \E key \in KeyCodes, t \in now..MaxTime :
          Blocks(Return(stack, "cooked", reported, now, t), "results_key", key,
                 Top(stack))
    /\ UNCHANGED <<attempts, fetches, aborted>>
    /\ UNCHANGED wrapVars

\* main, lines 319-330: the key of line 323, then the finally clause
KeyErrWait ==
    /\ mainpc = "errwait"
    /\ \E key \in KeyCodes :
          last' = [NoStep EXCEPT !.kind = "err_key", !.key = key]
    /\ mainpc' = "done"
    /\ term' = "cooked"
    /\ UNCHANGED <<stack, now, attempts, fetches, aborted, reported>>
    /\ UNCHANGED wrapVars

\* main, lines 305-311 raise (curses.error from start_color at line 110, or
\* from addstr at lines 129 and 143 on a terminal narrower than the text)
\* after lines 105-107 have set the terminal mode: the handler of line 325
\* prints the diagnostic at line 326
MainSetupFails ==
    /\ mainpc = "init"
    /\ mainpc' = "printed"
    /\ term' = "curses"
    /\ last' = [NoStep EXCEPT !.kind = "setup_error"]
    /\ UNCHANGED <<stack, now, attempts, fetches, aborted, reported>>
    /\ UNCHANGED wrapVars

\* main, lines 327-330: the finally clause after the print of line 326
MainFinally ==
    /\ mainpc = "printed"
    /\ mainpc' = "done"
    /\ term' = "cooked"
    /\ last' = [NoStep EXCEPT !.kind = "finally"]
    /\ UNCHANGED <<stack, now, attempts, fetches, aborted, reported>>
    /\ UNCHANGED wrapVars

Next ==
    \/ MainInit
    \/ MainSetupFails
    \/ MainFinally
    \/ MainBegin
    \/ KeyPrintable
    \/ KeyBackspace
    \/ KeyReload
    \/ KeyOther
    \/ KeyFailWait
    \/ KeyResultsWait
    \/ KeyErrWait

Spec == Init /\ [][Next]_vars

----------------------------------------------------------------------------
(* The wrapper run: split_sentence applied to one passage and one width *)

WrapAlphabet == {"a", "b", " ", "\t"}

Passages == UNION {[1..n -> WrapAlphabet] : n \in 0..MaxLen}

\* terminal widths: 1 (narrower than the margin) and every width whose
\* effective width is 0..MaxSafe
WrapWidths == {1} \cup (buffer_size .. buffer_size + MaxSafe)

WrapInit ==
    /\ SessionInit
    /\ wIn \in Passages
    /\ wWidth \in WrapWidths
    /\ wOut = <<>>
    /\ wpc = "input"

Wrap ==
    /\ wpc = "input"
    /\ wOut' = split_sentence(wIn, wWidth)
    /\ wpc' = "wrapped"
    /\ UNCHANGED <<wIn, wWidth>>
    /\ UNCHANGED sessionVars

WrapNext == Wrap

SpecWrap == WrapInit /\ [][WrapNext]_vars

----------------------------------------------------------------------------
(* Claims *)

\* the last step was a key event read by the loop's getch (line 209)
LoopKey == last.kind \in {"printable", "backspace", "reload", "other"}

\* every frame the run shows: those on the stack and those of the last step
Observed ==
    ({stack[i] : i \in 1..Len(stack)} \cup {last.before, last.after}) \ {NoFrame}

\* the frame has left the loop (lines 257-261 have run for it)
Exited(f) == f.pc \in {"results_wait", "raised"}

AllMatched(f) ==
    \A i \in 1..Len(f.sentence_list) : f.user_input[i] = f.sentence_list[i]

C2_BackspaceKey ==
    (LoopKey /\ last.key \in {8, 127}) =>
        LET b == last.before
            a == last.after
        IN  IF b.current_pos > 0
            THEN /\ a.current_line = b.current_line
                 /\ a.current_pos = b.current_pos - 1
                 /\ Len(a.user_input) = Len(b.user_input)
                 /\ \A i \in 1..Len(b.user_input) :
                       IF i = b.current_line + 1
                       THEN a.user_input[i] \o <<b.user_input[i][Len(b.user_input[i])]>>
                            = b.user_input[i]
                       ELSE a.user_input[i] = b.user_input[i]
            ELSE IF b.current_line > 0
            THEN /\ a.current_line = b.current_line - 1
                 /\ a.current_pos = Len(b.user_input[b.current_line])
                 /\ a.user_input = b.user_input
            ELSE /\ a.current_line = 0
                 /\ a.current_pos = 0
                 /\ a.user_input = b.user_input

\* a backspace at the start of the second line went back to the first
C2_Witness ==
    /\ LoopKey /\ last.key \in {8, 127}
    /\ last.before.current_pos = 0
    /\ last.before.current_line = 1
    /\ last.after.current_line = 0
    /\ last.after.current_pos > 0

\* C3: an attempt has left the loop exactly when its cursor stands at
\* current_line = len(sentence_list), which is exactly when every user_input
\* line equals its sentence_list line; end_time is set once, at that exit,
\* and is unset in every frame still in the loop.
C3_Completion ==
    \A f \in Observed :
        HasLocals(f) =>
            /\ Exited(f) <=> f.current_line = Len(f.sentence_list)
            /\ Exited(f) <=> AllMatched(f)
            /\ f.end_sets = IF Exited(f) THEN 1 ELSE 0
            /\ f.end_time # NoTime <=> Exited(f)

\* a two-line passage has been typed to the end and its result is shown
C3_Witness ==
    /\ stack # <<>>
    /\ Top(stack).pc = "results_wait"
    /\ Len(Top(stack).sentence_list) = 2
    /\ Top(stack).end_time > Top(stack).start_time
    /\ last.kind = "printable"

\* C4: the reload key abandons the attempt that received it: every key event
\* the loop reads is processed against the most recently started attempt, and
\* no attempt that received a reload has its result reported.
C4_ReloadAbandons ==
    /\ LoopKey =>
          last.before.id = IF last.kind = "reload" THEN attempts - 1 ELSE attempts
    /\ \A r \in reported : r.id \notin aborted

\* C5: the attempt a reload starts has its own fetch, made after the aborted
\* attempt's; when it reaches the loop code its cursor is (0, 0), every
\* user_input entry is empty and start_time is unset.
C5_ReloadFresh ==
    last.kind = "reload" =>
        /\ fetches > last.before.fetch_no
        /\ last.after # NoFrame =>
              /\ last.after.id = attempts
              /\ last.after.id # last.before.id
              /\ last.after.fetch_no = fetches
        /\ (last.after # NoFrame /\ HasLocals(last.after)) =>
              /\ last.after.current_line = 0
              /\ last.after.current_pos = 0
              /\ Len(last.after.user_input) = Len(last.after.sentence_list)
              /\ \A i \in 1..Len(last.after.user_input) : last.after.user_input[i] = <<>>
              /\ last.after.start_time = NoTime

\* a reload on the second line, after the clock started, opened a new loop
C5_Witness ==
    /\ last.kind = "reload"
    /\ last.before.current_line = 1
    /\ last.before.user_input[1] # <<>>
    /\ last.before.start_time # NoTime
    /\ last.after # NoFrame
    /\ last.after.pc = "loop"
    /\ Len(stack) = 2

\* C6: the lines of split_sentence, joined with single spaces and split on
\* whitespace, are the whitespace-delimited words of the passage, in order.
C6_WrapWords ==
    wpc = "wrapped" => StrSplit(StrJoin(wOut)) = StrSplit(wIn)

\* a passage with a tab and three words was wrapped into at least two lines
C6_Witness ==
    /\ wpc = "wrapped"
    /\ Len(wOut) >= 2
    /\ Len(StrSplit(wIn)) = 3
    /\ \E i \in 1..Len(wIn) : wIn[i] = "\t"

\* C7: every line of split_sentence(P, W) is at most max(W - 15, 1) long,
\* unless it is one single word longer than that.
C7_WrapWidth ==
    wpc = "wrapped" =>
        LET bound == IF wWidth - 15 > 1 THEN wWidth - 15 ELSE 1
        IN  \A i \in 1..Len(wOut) :
               \/ Len(wOut[i]) <= bound
               \/ Len(StrSplit(wOut[i])) = 1 /\ StrSplit(wOut[i])[1] = wOut[i]

\* a wrap at effective width 2 with a line of one word longer than the width
\* next to a line that fits it
C7_Witness ==
    /\ wpc = "wrapped"
    /\ wWidth = 17
    /\ \E i \in 1..Len(wOut) : Len(wOut[i]) > 2
    /\ \E i \in 1..Len(wOut) : Len(wOut[i]) <= 2

\* C8: a passage with no word after normalisation is handled like a fetch
\* failure (the branch of lines 155-160), and no result is computed from an
\* unset start_time.
C8_EmptyPassage ==
    \A f \in Observed :
        /\ (f.status = 200 /\ StrSplit(f.sentence) = <<>>) => f.pc = "fail_wait"
        /\ HasLocals(f) => ~(Exited(f) /\ f.start_time = NoTime)

\* C9: no successful (status 200) fetch takes the failure branch.
C9_FailureDistinct ==
    \A f \in Observed : f.status = 200 => f.pc # "fail_wait"

\* C10: an attempt whose fetch got a non-200 response stands at the getch of
\* line 159 with none of the locals of lines 167-200, has no result
\* reported, and is gone after one key.
C10_FetchFailure ==
    /\ \A f \in Observed :
          f.status # 200 =>
             /\ f.pc = "fail_wait"
             /\ DOMAIN f \cap {"sentence_list", "current_line", "current_pos",
                               "user_input", "start_time", "end_time"} = {}
             /\ \A r \in reported : r.id # f.id
    /\ (last.kind = "fail_key" /\ last.before.status # 200) =>
          \A i \in 1..Len(stack) : stack[i].id # last.before.id

\* a reload met a 404, the message was shown, and one key returned to the
\* attempt below
C10_Witness ==
    /\ last.kind = "fail_key"
    /\ last.before.status = 404
    /\ last.before.id = 2
    /\ Len(stack) = 1
    /\ reported = {}

\* C11: the word_count of line 167 equals the number of whitespace-delimited
\* tokens of the passage, which is the number of words split_sentence
\* distributes over the lines.
C11_WordCount ==
    wpc = "wrapped" =>
        /\ SplitSpaceCount(wIn) = Len(StrSplit(wIn))
        /\ SplitSpaceCount(wIn) = Len(StrSplit(StrJoin(wOut)))

\* C12: a session that completes with end_time equal to start_time gets a
\* result by a defined policy: display_results does not raise.
C12_ZeroElapsed ==
    \A f \in Observed :
        (HasLocals(f) /\ Exited(f) /\ f.start_time # NoTime
            /\ f.end_time = f.start_time) => f.pc # "raised"

\* a key event of the loop other than reload, with the frame it left
SameFrameKey == LoopKey /\ last.kind # "reload"

\* C13 without its last clause: start_time is unset when an attempt reaches
\* the loop code, the first key event sets it whatever the key is, and no
\* later key event changes it.
StartTimeSetOnce ==
    /\ (last.kind \in {"begin", "reload"} /\ last.after # NoFrame
          /\ HasLocals(last.after)) => last.after.start_time = NoTime
    /\ SameFrameKey =>
          /\ last.after.start_time # NoTime
          /\ last.before.start_time # NoTime =>
                last.after.start_time = last.before.start_time
    /\ \A i \in 1..Len(stack) :
          (HasLocals(stack[i]) /\ i < Len(stack)) => stack[i].start_time # NoTime

\* C13: start_time is unset until the first key event of an attempt, is set
\* by that key event whatever it is, is never changed afterwards, and once
\* end_time is set, end_time >= start_time (start_time then being a time).
C13_StartTime ==
    /\ StartTimeSetOnce
    /\ \A f \in Observed :
          (HasLocals(f) /\ f.end_time # NoTime) =>
              /\ f.start_time # NoTime
              /\ f.end_time >= f.start_time

\* C14: the diagnostic of line 326 is never printed while the terminal is
\* still in the mode initialize_curses set: clean_up_curses has run before.
C14_RestoredBeforePrint ==
    mainpc = "printed" => term = "cooked"

\* C15: wrapping the lines of split_sentence(P, W), joined with single
\* spaces, at the same width gives the same lines again.
C15_WrapIdempotent ==
    wpc = "wrapped" => split_sentence(StrJoin(wOut), wWidth) = wOut

\* a passage with irregular whitespace was wrapped into two or more lines,
\* one of them holding two words
C15_Witness ==
    /\ wpc = "wrapped"
    /\ Len(wOut) >= 2
    /\ StrJoin(wOut) # wIn
    /\ \E i \in 1..Len(wOut) : \E j \in 1..Len(wOut[i]) : wOut[i][j] = " "

\* C16: split_sentence of an empty or whitespace-only string is the empty
\* list, and no returned line is the empty string.
C16_NoEmptyLine ==
    wpc = "wrapped" =>
        /\ (\A i \in 1..Len(wIn) : wIn[i] \in Whitespace) => wOut = <<>>
        /\ \A i \in 1..Len(wOut) : wOut[i] # <<>>

\* a passage of a space and a tab was wrapped into no line
C16_Witness ==
    /\ wpc = "wrapped"
    /\ Len(wIn) >= 2
    /\ \A i \in 1..Len(wIn) : wIn[i] \in Whitespace
    /\ \E i \in 1..Len(wIn) : wIn[i] = "\t"
    /\ \E i \in 1..Len(wIn) : wIn[i] = " "
    /\ wOut = <<>>

\* the characters some key code in 32..126 gives
Typable == {Ascii[k] : k \in 1..Len(Ascii)}

\* C17: every character remove_accents and split_sentence leave in
\* sentence_list is matched by some printable key event (without which the
\* complete state cannot be reached from a state that expects it).
C17_Typable ==
    \A f \in Observed :
        HasLocals(f) =>
            \A i \in 1..Len(f.sentence_list) :
                \A j \in 1..Len(f.sentence_list[i]) :
                    f.sentence_list[i][j] \in Typable

\* the original C18: wherever the loop waits for a key, current_pos is inside
\* the current line.
C18_ExpectedDefined ==
    \A f \in Observed :
        f.pc = "loop" => f.current_pos < Len(CurLine(f))

\* C18, amended: wherever the loop waits for a key, current_line is a line
\* of sentence_list and 0 <= current_pos <= its length; current_pos equals
\* the length only on a fully typed line before the last (after a cross-line
\* backspace), and a printable key met there changes neither cursor nor
\* user_input.
C18_CursorInLine ==
    /\ \A f \in Observed :
          f.pc = "loop" =>
             /\ 0 <= f.current_line /\ f.current_line < Len(f.sentence_list)
             /\ 0 <= f.current_pos /\ f.current_pos <= Len(CurLine(f))
             /\ f.current_pos = Len(CurLine(f)) =>
                   /\ f.current_line + 1 < Len(f.sentence_list)
                   /\ f.user_input[f.current_line + 1] = CurLine(f)
    /\ (LoopKey /\ 32 <= last.key /\ last.key <= 126
          /\ last.before.current_pos = Len(CurLine(last.before))) =>
             /\ last.after.current_line = last.before.current_line
             /\ last.after.current_pos = last.before.current_pos
             /\ last.after.user_input = last.before.user_input

\* a printable key was read at the end of the first line, where a cross-line
\* backspace had put the cursor, and was ignored
C18_Witness ==
    /\ LoopKey /\ 32 <= last.key /\ last.key <= 126
    /\ last.before.current_pos = Len(CurLine(last.before))
    /\ last.after.pc = "loop"
    /\ last.after.current_line = 0

\* C19: user_input[current_line] is the first current_pos characters of
\* sentence_list[current_line], every earlier line of user_input equals its
\* sentence_list line and every later line is empty.
C19_Lockstep ==
    \A f \in Observed :
        HasLocals(f) =>
            /\ Len(f.user_input) = Len(f.sentence_list)
            /\ \A i \in 1..Len(f.sentence_list) :
                  IF i < f.current_line + 1
                  THEN f.user_input[i] = f.sentence_list[i]
                  ELSE IF i = f.current_line + 1
                  THEN /\ f.current_pos <= Len(f.sentence_list[i])
                       /\ f.user_input[i] = SubSeq(f.sentence_list[i], 1, f.current_pos)
                  ELSE f.user_input[i] = <<>>

\* after a cross-line backspace, a second backspace removed the last
\* character of the first line
C19_Witness ==
    /\ last.kind = "backspace"
    /\ last.before.current_line = 0
    /\ last.before.current_pos = Len(CurLine(last.before))
    /\ last.after.current_pos = 1
    /\ Len(last.after.sentence_list) = 2

\* C20: between two consecutive lines of split_sentence(P, W), the first
\* word of the later line did not fit the earlier line:
\* len(earlier) + 1 + len(word) > max(W - 15, 1).
C20_Greedy ==
    wpc = "wrapped" =>
        LET bound == IF wWidth - 15 > 1 THEN wWidth - 15 ELSE 1
        IN  \A i \in 1..(Len(wOut) - 1) :
               Len(wOut[i]) + 1 + Len(StrSplit(wOut[i + 1])[1]) > bound

\* a line break that left room on the earlier line, too little for the
\* next word
C20_Witness ==
    /\ wpc = "wrapped"
    /\ wWidth = 18
    /\ Len(wOut) >= 2
    /\ Len(wOut[1]) < 3
    /\ Len(StrSplit(wOut[2])[1]) = 2

====
